---- MODULE Spec2Model ----
(***************************************************************************)
(* A model of the two agent modules of the repository:                     *)
(*                                                                         *)
(*   recipe_agent/agent.py            sort_recipes_by_nutrition, a tool    *)
(*                                    that ranks recipe dicts by           *)
(*                                    nutrition.score;                     *)
(*   culinary-adk/manager_agent/agent.py                                   *)
(*                                    the MealManager agent, its two tools *)
(*                                    and the sous_chef_guide function.    *)
(*                                                                         *)
(* Python values are modelled by tagged records, the Python heap by a      *)
(* sequence of list objects (object id = index), exceptions by records     *)
(* with an ok flag, floats by an integer with a NaN flag.                  *)
(***************************************************************************)
EXTENDS Integers, Sequences, FiniteSets, TLC

\* ------------------------------------------------------------------------
\* Bounds of the model
\* ------------------------------------------------------------------------
\* longest list handed to the sorter by the single caller
MaxLen == 3
\* longest list handed to the sorter by each of the concurrent sessions
SessMaxLen == 2
\* number of concurrent sessions
NumSessions == 2
\* most tool calls the external model issues in one run of the manager
MaxCalls == 3
\* most instruction steps in a generated recipe
MaxSteps == 2

\* ------------------------------------------------------------------------
\* Python values met by the sorter
\* ------------------------------------------------------------------------
\* A float: an integer value, or NaN (nan = TRUE, n ignored).
Float(k) == [nan |-> FALSE, n |-> k]
NaN == [nan |-> TRUE, n |-> 0]

\* IEEE-754 "<" as used by the sort: every comparison with NaN is false.
FloatLT(a, b) == ~a.nan /\ ~b.nan /\ a.n < b.n

\* The outcome of evaluating an expression: a value, or a raised exception.
Ok(v) == [ok |-> TRUE, exc |-> "", val |-> v]
Raise(e) == [ok |-> FALSE, exc |-> e, val |-> Float(0)]

\* The values stored under nutrition["score"]:
\*   st = "int"     the number sn                 (90)
\*   st = "str"     a string spelling sn          ("90")
\*   st = "strnan"  the string "nan"
\*   st = "strbad"  a string spelling no number   ("high")
\*   st = "None"    None
IntScores == {0, 40, 90}
ScoreValues ==
    {[st |-> "int", sn |-> k] : k \in IntScores}
    \cup {[st |-> "str", sn |-> 90], [st |-> "strnan", sn |-> 0],
          [st |-> "strbad", sn |-> 0], [st |-> "None", sn |-> 0]}

\* The shapes of a list element:
\*   "notdict"      not a dict at all             ("x", 7)
\*   "nonutrition"  a dict without "nutrition"    ({"name": "X"})
\*   "nutnotdict"   "nutrition" is not a dict     ({"nutrition": None})
\*   "noscore"      "nutrition" has no "score"    ({"nutrition": {}})
\*   "score"        nutrition.score is (st, sn)
Shapes ==
    {[shape |-> s, st |-> "None", sn |-> 0] :
        s \in {"notdict", "nonutrition", "nutnotdict", "noscore"}}
    \cup {[shape |-> "score", st |-> v.st, sn |-> v.sn] : v \in ScoreValues}

\* The element shapes used by the concurrent sessions.
SessShapes == {[shape |-> "score", st |-> "int", sn |-> k] : k \in {40, 90}}

\* float(x) for the score values above.
float(st, sn) ==
    CASE st = "int" -> Ok(Float(sn))
      [] st = "str" -> Ok(Float(sn))
      [] st = "strnan" -> Ok(NaN)
      [] st = "strbad" -> Raise("ValueError")
      [] st = "None" -> Raise("TypeError")

\* The body of get_score's try block:
\*   float(r.get("nutrition", {}).get("score", 0))
get_score_body(r) ==
    CASE r.shape = "notdict" -> Raise("AttributeError")
      [] r.shape = "nonutrition" -> float("int", 0)
      [] r.shape = "nutnotdict" -> Raise("AttributeError")
      [] r.shape = "noscore" -> float("int", 0)
      [] r.shape = "score" -> float(r.st, r.sn)

\* get_score without its try/except: the exception leaves the key function.
get_score_unguarded(r) == get_score_body(r)

\* get_score: the try block, and 0.0 on any Exception.
get_score(r) ==
    IF get_score_body(r).ok THEN get_score_body(r) ELSE Ok(Float(0))

\* str(exc) for the exceptions above.
str_exc(e) ==
    CASE e = "AttributeError" -> "object has no attribute 'get'"
      [] e = "ValueError" -> "could not convert string to float"
      [] e = "TypeError" -> "float() argument must be a string or a real number"
      [] OTHER -> e

\* ------------------------------------------------------------------------
\* list.sort as CPython runs it on a list shorter than 64 elements (one
\* run: count_run, then binarysort), on items [key, elem], comparing keys
\* with "<" only.
\* ------------------------------------------------------------------------
KeyLT(x, y) == FloatLT(x.key, y.key)

Reverse(s) == [i \in 1..Len(s) |-> s[Len(s) + 1 - i]]

\* The last index of the run that starts at 1 and has reached index i.
RECURSIVE RunEnd(_, _, _)
RunEnd(s, i, descending) ==
    IF i = Len(s) THEN i
    ELSE IF KeyLT(s[i + 1], s[i]) = descending
         THEN RunEnd(s, i + 1, descending)
         ELSE i

\* count_run: the length of the natural run at the head of s and whether it
\* is strictly descending. Len(s) >= 1.
count_run(s) ==
    IF Len(s) = 1 THEN [n |-> 1, descending |-> FALSE]
    ELSE LET descending == KeyLT(s[2], s[1])
         IN [n |-> RunEnd(s, 2, descending), descending |-> descending]

\* The bisection of binarysort over the 0-based slice [l, r): the slot of
\* pivot, to the right of every element that is not greater than it.
RECURSIVE Bisect(_, _, _, _)
Bisect(s, pivot, l, r) ==
    IF l >= r THEN l
    ELSE LET p == l + ((r - l) \div 2)
         IN IF KeyLT(pivot, s[p + 1])
            THEN Bisect(s, pivot, l, p)
            ELSE Bisect(s, pivot, p + 1, r)

\* s with s[k] moved down to index pos (pos <= k).
MoveTo(s, k, pos) ==
    [i \in 1..Len(s) |->
        IF i < pos THEN s[i]
        ELSE IF i = pos THEN s[k]
        ELSE IF i <= k THEN s[i - 1]
        ELSE s[i]]

\* binarysort: s[1..k-1] is sorted; insert s[k], s[k+1], ... in turn.
RECURSIVE binarysort(_, _)
binarysort(s, k) ==
    IF k > Len(s) THEN s
    ELSE binarysort(MoveTo(s, k, Bisect(s, s[k], 0, k - 1) + 1), k + 1)

\* The ascending stable sort of one run.
SortRun(s) ==
    LET run == count_run(s)
        head == SubSeq(s, 1, run.n)
        tail == SubSeq(s, run.n + 1, Len(s))
        b == IF run.descending THEN Reverse(head) \o tail ELSE s
    IN binarysort(b, run.n + 1)

\* A descending sort got by sorting ascending and reversing the result.
list_sort_reversed_after(s, reverse) ==
    IF Len(s) < 2 THEN s
    ELSE IF reverse THEN Reverse(SortRun(s)) ELSE SortRun(s)

\* list.sort(reverse=...): reverse, sort ascending, reverse again.
list_sort(s, reverse) ==
    IF Len(s) < 2 THEN s
    ELSE IF reverse THEN Reverse(SortRun(Reverse(s))) ELSE SortRun(s)

\* The keys list.sort computes before it compares anything: get_score(x)
\* for every x, in list order.
Keys(s) == [i \in 1..Len(s) |-> get_score(s[i])]

\* The first exception raised while the keys are computed ("" if none).
FirstRaised(ks) ==
    IF \A i \in 1..Len(ks) : ks[i].ok THEN ""
    ELSE ks[CHOOSE i \in 1..Len(ks) :
                /\ ~ks[i].ok
                /\ \A j \in 1..(i - 1) : ks[j].ok].exc

\* The items of s in the order list.sort(key=get_score, reverse=True)
\* leaves them in, when no key raises.
SortedItems(s) ==
    LET ks == Keys(s)
        items == [i \in 1..Len(s) |-> [key |-> ks[i].val, elem |-> s[i]]]
        out == list_sort(items, TRUE)
    IN [i \in 1..Len(s) |-> out[i].elem]

\* recipes.sort(key=get_score, reverse=True) followed by returning recipes:
\* the list object ref itself is reordered and returned.
sorted_inplace(h, ref) ==
    LET ks == Keys(h[ref])
    IN IF FirstRaised(ks) # ""
       THEN [ok |-> FALSE, exc |-> FirstRaised(ks), heap |-> h, ref |-> 0,
             keys |-> ks]
       ELSE [ok |-> TRUE, exc |-> "",
             heap |-> [h EXCEPT ![ref] = SortedItems(h[ref])], ref |-> ref,
             keys |-> ks]

\* sorted(recipes, key=get_score, reverse=True): a new list object holding
\* the elements of list ref, sorted; list ref is left alone.
sorted(h, ref) ==
    LET ks == Keys(h[ref])
    IN IF FirstRaised(ks) # ""
       THEN [ok |-> FALSE, exc |-> FirstRaised(ks), heap |-> h, ref |-> 0,
             keys |-> ks]
       ELSE [ok |-> TRUE, exc |-> "",
             heap |-> Append(h, SortedItems(h[ref])), ref |-> Len(h) + 1,
             keys |-> ks]

\* A type check that lets every argument through.
isinstance_any(a) == TRUE

\* isinstance(recipes, list)
isinstance_list(a) == a.type = "list"

\* sort_recipes_by_nutrition(recipes) run on heap h with argument a: the
\* heap after the call, the dict returned, and the keys the sort used.
sort_recipes_by_nutrition(h, a) ==
    IF ~isinstance_list(a)
    THEN [heap |-> h, keys |-> << >>,
          ret |-> [status |-> "error",
                   error_message |-> "Expected a list of recipes"]]
    ELSE LET r == sorted(h, a.ref)
         IN IF r.ok
            THEN [heap |-> r.heap, keys |-> r.keys,
                  ret |-> [status |-> "success", recipes |-> r.ref]]
            ELSE [heap |-> r.heap, keys |-> r.keys,
                  ret |-> [status |-> "error",
                           error_message |-> str_exc(r.exc)]]

\* ------------------------------------------------------------------------
\* The sorter and its callers
\* ------------------------------------------------------------------------
VARIABLES
    heap,    \* the list objects: heap[ref] is the contents of list ref
    arg,     \* arg[s]: the argument session s passes to the sorter
    given,   \* given[s]: the contents of that argument when s was handed it
    pc,      \* pc[s]: how far session s is
    result,  \* result[s]: the dicts returned to session s, in call order
    keys     \* keys[s]: the sort keys computed by the latest call of s

sorterVars == <<heap, arg, given, pc, result, keys>>

\* The arguments that are not lists.
NonListTypes == {"str", "NoneType", "dict", "tuple"}

\* The lists of at most n elements of the given shapes; an element carries
\* its identity (id), its position in the list it was created in.
ListsOf(shapes, n) ==
    UNION {[1..k -> shapes] : k \in 0..n}

WithIds(q) ==
    [i \in 1..Len(q) |->
        [id |-> i, shape |-> q[i].shape, st |-> q[i].st, sn |-> q[i].sn]]

Inputs(shapes, n, others) ==
    {[type |-> "list", items |-> WithIds(q)] : q \in ListsOf(shapes, n)}
    \cup {[type |-> t, items |-> << >>] : t \in others}

\* Session s holds object s of the heap as its argument; an object that is
\* not a list has no list contents.
InitSorter(sessions, inputs) ==
    \E inp \in [sessions -> inputs] :
        /\ heap = [s \in sessions |-> inp[s].items]
        /\ arg = [s \in sessions |-> [type |-> inp[s].type, ref |-> s]]
        /\ given = [s \in sessions |-> inp[s].items]
        /\ pc = [s \in sessions |-> "start"]
        /\ result = [s \in sessions |-> << >>]
        /\ keys = [s \in sessions |-> << >>]

\* Session s calls sort_recipes_by_nutrition(a) and moves to stage next.
Invoke(s, a, next) ==
    LET out == sort_recipes_by_nutrition(heap, a)
    IN /\ heap' = out.heap
       /\ result' = [result EXCEPT ![s] = Append(@, out.ret)]
       /\ keys' = [keys EXCEPT ![s] = out.keys]
       /\ pc' = [pc EXCEPT ![s] = next]
       /\ UNCHANGED <<arg, given>>

\* The first call, on the argument the session was handed.
Call(s) ==
    /\ pc[s] = "start"
    /\ Invoke(s, arg[s], "once")

\* A second call on the same argument.
CallAgain(s) ==
    /\ pc[s] = "once"
    /\ Invoke(s, arg[s], "twice")

\* A call on the recipes list the first call returned.
CallOnOutput(s) ==
    /\ pc[s] = "twice"
    /\ result[s][1].status = "success"
    /\ Invoke(s, [type |-> "list", ref |-> result[s][1].recipes], "resorted")

\* ------------------------------------------------------------------------
\* The manager agent (MealManager), its tools and one run of it
\* ------------------------------------------------------------------------
VARIABLES
    tools,        \* root_agent.tools: the tools bound to the manager
    mgr_pc,       \* "deciding", "closed" (closing message sent) or "failed"
    outstanding,  \* the tool calls issued and not yet answered
    events,       \* the calls, responses and final message of the run
    recipe,       \* the instructions of the latest generated recipe
    generated,    \* whether a recipe has been generated in this run
    display       \* what sous_chef_guide has printed

managerVars ==
    <<tools, mgr_pc, outstanding, events, recipe, generated, display>>

vars == <<sorterVars, managerVars>>

\* The value sous_chef_guide returns.
SUCCESS == "SUCCESS: User confirmed completion of this cooking step."

\* The two lines sous_chef_guide prints: the banner, and
\* "Instruction: <instruction> (Approx. <mins> mins)".
BannerLine == [line |-> "banner", instruction |-> "", mins |-> 0]

InstructionLine(step_instruction, step_duration) ==
    [line |-> "instruction", instruction |-> step_instruction,
     mins |-> step_duration]

\* A guide that rejects an empty instruction or a duration that is not
\* positive.
sous_chef_guide_validating(out, step_instruction, step_duration) ==
    IF step_instruction = "" \/ step_duration <= 0
    THEN [display |-> out, ret |-> "ERROR: invalid cooking step."]
    ELSE [display |-> out \o <<BannerLine,
                                InstructionLine(step_instruction,
                                                step_duration)>>,
          ret |-> SUCCESS]

\* A guide that confirms without printing the instruction.
sous_chef_guide_silent(out, step_instruction, step_duration) ==
    [display |-> Append(out, BannerLine), ret |-> SUCCESS]

\* sous_chef_guide(step_instruction, step_duration) with out printed so
\* far: prints the banner and the instruction line, returns the
\* confirmation.
sous_chef_guide(out, step_instruction, step_duration) ==
    [display |-> out \o <<BannerLine,
                           InstructionLine(step_instruction, step_duration)>>,
     ret |-> SUCCESS]

\* FunctionTool(func): a tool named after the function.
FunctionTool(func_name) == [kind |-> "function", name |-> func_name]

\* AgentTool(agent): a tool named after the agent.
AgentTool(agent) == [kind |-> "agent", name |-> agent.name]

sous_chef_tool == FunctionTool("sous_chef_guide")

recipe_creator_agent == [name |-> "RecipeCreator", model |-> "gemini-2.5-pro"]

recipe_tool == AgentTool(recipe_creator_agent)

\* root_agent: its tool list, and the tool names its instruction tells the
\* model to call.
root_agent_tools == <<recipe_tool, sous_chef_tool>>

InstructionToolNames == {"create_new_recipe", "sous_chef_guide"}

\* The names under which tools are bound.
BoundNames == {tools[i].name : i \in 1..Len(tools)}

\* The tool bound under name (name is bound).
ToolNamed(name) ==
    tools[CHOOSE i \in 1..Len(tools) : tools[i].name = name]

\* The names the external model may put in a call: those declared to it
\* and those its instruction mentions.
PlannerNames == BoundNames \cup InstructionToolNames

\* The arguments the external model may pass to the guide, and the steps a
\* generated recipe may hold.
Instructions == {"", "Preheat oven to 400F", "Stir"}
Durations == {-1, 0, 10}
Steps == {[instr |-> "Preheat oven to 400F", dur |-> 10],
          [instr |-> "Stir", dur |-> 10]}
Recipes == UNION {[1..k -> Steps] : k \in 0..MaxSteps}

Event(kind, c, ret) ==
    [kind |-> kind, name |-> c.name, instr |-> c.instr, dur |-> c.dur,
     ret |-> ret]

NoCall == [name |-> "", instr |-> "", dur |-> 0]

NumCalls == Cardinality({i \in 1..Len(events) : events[i].kind = "call"})

InitManager ==
    /\ tools = root_agent_tools
    /\ mgr_pc = "deciding"
    /\ outstanding = {}
    /\ events = << >>
    /\ recipe = << >>
    /\ generated = FALSE
    /\ display = << >>

\* The external model asks for a tool call. It has the previous call's
\* result before it asks for the next one.
PlanCall ==
    /\ mgr_pc = "deciding"
    /\ outstanding = {}
    /\ NumCalls < MaxCalls
    /\ \E name \in PlannerNames :
       \E instr \in Instructions :
       \E dur \in Durations :
          /\ name # "sous_chef_guide" => instr = "" /\ dur = 0
          /\ LET c == [name |-> name, instr |-> instr, dur |-> dur]
             IN /\ outstanding' = {c}
                /\ events' = Append(events, Event("call", c, ""))
    /\ UNCHANGED <<tools, mgr_pc, recipe, generated, display>>
    /\ UNCHANGED sorterVars

\* A call of the function tool runs sous_chef_guide.
RunSousChef ==
    /\ \E c \in outstanding :
          /\ c.name \in BoundNames
          /\ ToolNamed(c.name).kind = "function"
          /\ LET r == sous_chef_guide(display, c.instr, c.dur)
             IN /\ display' = r.display
                /\ events' = Append(events, Event("response", c, r.ret))
          /\ outstanding' = outstanding \ {c}
    /\ UNCHANGED <<tools, mgr_pc, recipe, generated>>
    /\ UNCHANGED sorterVars

\* A call of the agent tool runs RecipeCreator, which returns a recipe.
RunRecipeCreator ==
    /\ \E c \in outstanding :
          /\ c.name \in BoundNames
          /\ ToolNamed(c.name).kind = "agent"
          /\ \E r \in Recipes : recipe' = r
          /\ generated' = TRUE
          /\ events' = Append(events, Event("response", c, "RecipeOutput"))
          /\ outstanding' = outstanding \ {c}
    /\ UNCHANGED <<tools, mgr_pc, display>>
    /\ UNCHANGED sorterVars

\* A call of a name no tool is bound under fails the run.
RejectUnknown ==
    /\ \E c \in outstanding :
          /\ c.name \notin BoundNames
          /\ events' = Append(events, Event("error", c, "not found"))
          /\ outstanding' = outstanding \ {c}
    /\ mgr_pc' = "failed"
    /\ UNCHANGED <<tools, recipe, generated, display>>
    /\ UNCHANGED sorterVars

\* The external model sends its closing message.
Finish ==
    /\ mgr_pc = "deciding"
    /\ outstanding = {}
    /\ mgr_pc' = "closed"
    /\ events' = Append(events, Event("final", NoCall, ""))
    /\ UNCHANGED <<tools, outstanding, recipe, generated, display>>
    /\ UNCHANGED sorterVars

\* ------------------------------------------------------------------------
\* Specifications
\* ------------------------------------------------------------------------
Sessions == 1..NumSessions

\* The manager, idle, beside the sorter.
IdleManager ==
    /\ tools = root_agent_tools
    /\ mgr_pc = "closed"
    /\ outstanding = {}
    /\ events = << >>
    /\ recipe = << >>
    /\ generated = FALSE
    /\ display = << >>

\* One caller of the sorter, with any argument.
Init ==
    /\ InitSorter({1}, Inputs(Shapes, MaxLen, NonListTypes))
    /\ IdleManager

\* Independent sessions calling the sorter, each with its own argument.
InitSessions ==
    /\ InitSorter(Sessions, Inputs(SessShapes, SessMaxLen, {"str"}))
    /\ IdleManager

\* The steps of the caller; the manager takes no part in them.
FirstCall == \E s \in DOMAIN pc : Call(s) /\ UNCHANGED managerVars

SecondCall == \E s \in DOMAIN pc : CallAgain(s) /\ UNCHANGED managerVars

CallOnRecipes == \E s \in DOMAIN pc : CallOnOutput(s) /\ UNCHANGED managerVars

Next ==
    \/ FirstCall
    \/ SecondCall
    \/ CallOnRecipes

Spec == Init /\ [][Next]_vars

\* Each session calls the sorter once, in any order.
NextSessions == FirstCall

SpecSessions == InitSessions /\ [][NextSessions]_vars

\* One run of the manager.
InitRun ==
    /\ InitSorter({}, {})
    /\ InitManager

NextRun ==
    \/ PlanCall
    \/ RunSousChef
    \/ RunRecipeCreator
    \/ RejectUnknown
    \/ Finish

SpecManager == InitRun /\ [][NextRun]_vars

\* ------------------------------------------------------------------------
\* Properties of the sorter
\* ------------------------------------------------------------------------
\* The list call k of session s was made on: the session's argument for the
\* first two calls, the first call's recipes for the third.
InputOf(s, k) == IF k <= 2 THEN given[s] ELSE heap[result[s][1].recipes]

\* The recipes list call k of session s returned (the call succeeded).
OutputOf(s, k) == heap[result[s][k].recipes]

Succeeded(s, k) == result[s][k].status = "success"

\* The score an element is ranked by.
Score(e) == get_score(e).val

SameElements(a, b) ==
    /\ Len(a) = Len(b)
    /\ \A i \in 1..Len(a) : \E j \in 1..Len(b) : b[j] = a[i]
    /\ \A j \in 1..Len(b) : \E i \in 1..Len(a) : a[i] = b[j]

NonIncreasing(out) ==
    \A i \in 1..Len(out) : \A j \in (i + 1)..Len(out) :
        ~FloatLT(Score(out[i]), Score(out[j]))

Stable(out) ==
    \A i \in 1..Len(out) : \A j \in (i + 1)..Len(out) :
        Score(out[i]) = Score(out[j]) /\ ~Score(out[i]).nan
            => out[i].id < out[j].id

\* C1: for every list input the returned recipes are a permutation of the
\* input, their extracted scores are non-increasing from first to last, and
\* elements of equal score keep their input order.
C1_StableDescendingSort ==
    \A s \in DOMAIN pc :
        pc[s] # "start" /\ arg[s].type = "list"
            => /\ Succeeded(s, 1)
               /\ SameElements(given[s], OutputOf(s, 1))
               /\ NonIncreasing(OutputOf(s, 1))
               /\ Stable(OutputOf(s, 1))

\* C2: for every input that is not a list the result is exactly
\* {status: "error", error_message: "Expected a list of recipes"}, with no
\* recipes field, and nothing is sorted: no key is computed and no list is
\* created.
C2_NonListIsError ==
    \A s \in DOMAIN pc :
        arg[s].type # "list"
            => /\ \A k \in 1..Len(result[s]) :
                      result[s][k] =
                          [status |-> "error",
                           error_message |-> "Expected a list of recipes"]
               /\ keys[s] = << >>
               /\ heap[arg[s].ref] = given[s]
               /\ Len(heap) = Cardinality(DOMAIN pc)

C2_Witness ==
    \E s \in DOMAIN pc :
        /\ arg[s].type = "NoneType"
        /\ pc[s] = "twice"
        /\ DOMAIN result[s][2] = {"status", "error_message"}

\* The score the claim gives an element: the number found at
\* nutrition.score (a number, or a string spelling one), and 0.0 when the
\* key is missing, the value is not a number, or the shape is wrong.
ClaimedScore(e) ==
    IF e.shape = "score" /\ e.st \in {"int", "str"}
    THEN Float(e.sn)
    ELSE Float(0)

\* C3: the score every element is ordered by is the numeric value at
\* nutrition.score, and exactly 0.0 when the key is missing, the value is
\* not numeric or the element has the wrong shape.
C3_ScoreOrZero ==
    \A s \in DOMAIN pc :
        pc[s] \in {"once", "twice"} /\ arg[s].type = "list"
            => /\ Len(keys[s]) = Len(given[s])
               /\ \A i \in 1..Len(given[s]) :
                      keys[s][i] = Ok(ClaimedScore(given[s][i]))

\* C4: every call on a list returns status "success", whatever the
\* elements are.
C4_ListAlwaysSucceeds ==
    \A s \in DOMAIN pc :
        arg[s].type = "list"
            => \A k \in 1..Len(result[s]) :
                   /\ Succeeded(s, k)
                   /\ DOMAIN result[s][k] = {"status", "recipes"}
                   /\ Len(OutputOf(s, k)) = Len(InputOf(s, k))

C4_Witness ==
    \E s \in DOMAIN pc :
        /\ pc[s] = "once"
        /\ Succeeded(s, 1)
        /\ \E i, j, k \in 1..Len(given[s]) :
               /\ given[s][i].shape = "notdict"
               /\ given[s][j].shape = "nutnotdict"
               /\ given[s][k].shape = "score" /\ given[s][k].st = "strbad"

\* The object ids of the lists handed to the sessions.
InputRefs == {arg[s].ref : s \in DOMAIN pc}

\* C5: a call leaves its input list as it was and returns the sorted
\* recipes in a new list, distinct from the input and from every list of
\* every other call; whatever the other sessions have done meanwhile, each
\* result is what the call yields on its own: the session's input sorted.
C5_FrameAndIsolation ==
    \A s \in DOMAIN pc :
        /\ heap[arg[s].ref] = given[s]
        /\ \A k \in 1..Len(result[s]) :
               IF arg[s].type = "list"
               THEN /\ Succeeded(s, k)
                    /\ result[s][k].recipes \notin InputRefs
                    /\ \A t \in DOMAIN pc : \A m \in 1..Len(result[t]) :
                           (t # s \/ m # k) /\ Succeeded(t, m)
                               => result[t][m].recipes # result[s][k].recipes
                    /\ OutputOf(s, k) = SortedItems(given[s])
               ELSE result[s][k].status = "error"

C5_Witness ==
    \E s, t \in DOMAIN pc :
        /\ s # t
        /\ pc[s] = "once" /\ pc[t] = "once"
        /\ arg[s].type = "list" /\ arg[t].type = "list"
        /\ result[s][1].recipes < result[t][1].recipes
        /\ OutputOf(s, 1) # given[s]
        /\ OutputOf(t, 1) # given[t]

\* C6: calling the sorter twice on a list yields the same ordering both
\* times, and calling it on the recipes it returned yields that ordering
\* again.
C6_Idempotent ==
    \A s \in DOMAIN pc :
        arg[s].type = "list"
            => \A k \in 2..Len(result[s]) :
                   /\ Succeeded(s, 1) /\ Succeeded(s, k)
                   /\ OutputOf(s, k) = OutputOf(s, 1)

C6_Witness ==
    \E s \in DOMAIN pc :
        /\ pc[s] = "resorted"
        /\ Len(given[s]) = 3
        /\ OutputOf(s, 3) # given[s]
        /\ \E i, j \in 1..3 : i # j /\ Score(given[s][i]) = Score(given[s][j])

\* An element whose nutrition.score cannot be read as a number.
Malformed(e) == ~(e.shape = "score" /\ e.st \in {"int", "str"})

\* C9: in the sorter's output no malformed element appears before a
\* well-formed element.
C9_MalformedAtBottom ==
    \A s \in DOMAIN pc :
        pc[s] # "start" /\ arg[s].type = "list" /\ Succeeded(s, 1)
            => \A i \in 1..Len(OutputOf(s, 1)) :
               \A j \in (i + 1)..Len(OutputOf(s, 1)) :
                   ~(Malformed(OutputOf(s, 1)[i])
                        /\ ~Malformed(OutputOf(s, 1)[j]))

\* ------------------------------------------------------------------------
\* Properties of the manager
\* ------------------------------------------------------------------------
IsGuideCall(e) == e.kind = "call" /\ e.name = "sous_chef_guide"

IsGuideResponse(e) == e.kind = "response" /\ e.name = "sous_chef_guide"

\* The steps the guide was called with, and those it has answered, in order.
StepsOf(es) == [i \in 1..Len(es) |-> [instr |-> es[i].instr, dur |-> es[i].dur]]

GuideCalls == StepsOf(SelectSeq(events, IsGuideCall))

GuideResponses == StepsOf(SelectSeq(events, IsGuideResponse))

IsPrefix(a, b) == Len(a) <= Len(b) /\ \A i \in 1..Len(a) : a[i] = b[i]

\* C7: whatever instruction and duration it is called with, an empty
\* instruction and a zero or negative duration included, sous_chef_guide
\* returns the literal confirmation; no call of it ends in an error.
C7_GuideAlwaysConfirms ==
    \A i \in 1..Len(events) :
        /\ events[i].kind = "error" => events[i].name # "sous_chef_guide"
        /\ IsGuideCall(events[i]) /\ i < Len(events)
               => /\ IsGuideResponse(events[i + 1])
                  /\ events[i + 1].ret = SUCCESS

C7_Witness ==
    \E i, j \in 1..Len(events) :
        /\ IsGuideResponse(events[i])
        /\ events[i].instr = "" /\ events[i].dur < 0
        /\ events[i].ret = SUCCESS
        /\ IsGuideResponse(events[j])
        /\ events[j].instr # "" /\ events[j].dur = 0
        /\ events[j].ret = SUCCESS

C10_InstructionNamesBound ==
    /\ Len(tools) = 2
    /\ {tools[i].kind : i \in 1..Len(tools)} = {"agent", "function"}
    /\ InstructionToolNames \subseteq BoundNames

====
